---- MODULE Spec2Model ----
(***************************************************************************)
(* NaN-aware comparison, equality and hashing primitives of                *)
(* pagmo/detail/custom_comparisons.hpp.                                    *)
(*                                                                         *)
(* A floating-point value is modelled by its bit pattern, laid out as in   *)
(* IEEE-754: the sign bit is the most significant one; below it the        *)
(* patterns 0 .. MaxMag are the finite magnitudes (0 is zero), InfBits is  *)
(* infinity and the patterns above InfBits are the NaN payloads.           *)
(***************************************************************************)
EXTENDS Integers, Sequences, FiniteSets, TLC

VARIABLES
    cpp20,      \* is __cpp_impl_three_way_comparison defined in this build
    After,      \* the template argument After of the ordering functions
    a, b, c,    \* scalar operands
    called,     \* the scalar primitives that have been called
    lt, gt, eq, \* their results on every ordered pair of the operands
    hashImpl,   \* which native hash of a floating-point value the build links
    v1, v2,     \* vector operands
    vcalled,    \* the vector functors that have been called
    eqv,        \* the result of equal_to_vf()(v1, v2)
    h1, h2,     \* the results of hash_vf()(v1) and hash_vf()(v2)
    input,      \* the sequence handed to the sort
    arr,        \* the sequence being sorted in place
    phase,      \* which sort is running
    pc,         \* the position inside the running sort
    i, j, key,  \* the loop variables of the sort
    outLess,    \* input sorted with less_than_f<After>
    outGreater  \* input sorted with greater_than_f<After>

vars == <<cpp20, After, a, b, c, called, lt, gt, eq, hashImpl, v1, v2, vcalled,
          eqv, h1, h2, input, arr, phase, pc, i, j, key, outLess, outGreater>>

scalarVars == <<a, b, c, called, lt, gt, eq>>
vecVars == <<hashImpl, v1, v2, vcalled, eqv, h1, h2>>
sortVars == <<input, arr, phase, pc, i, j, key, outLess, outGreater>>

----------------------------------------------------------------------------
(* The value domain *)

\* largest finite magnitude, in units of the smallest positive value
MaxMag == 3
\* number of distinct NaN payloads
MaxPayload == 2

InfBits == MaxMag + 1
SignBit == InfBits + MaxPayload + 1
Floats == 0 .. (2 * SignBit - 1)

Mag(x) == x % SignBit
Neg(x) == x >= SignBit
MkFloat(neg, mag) == IF neg THEN SignBit + mag ELSE mag

isnan(x) == Mag(x) > InfBits
isinf(x) == Mag(x) = InfBits
iszero(x) == Mag(x) = 0

\* the real value of a non-NaN pattern (infinity lies beyond every finite value)
Val(x) == IF Neg(x) THEN 0 - Mag(x) ELSE Mag(x)

\* a < b, a > b, a == b of the language: false as soon as an operand is NaN
NativeLess(x, y) == ~isnan(x) /\ ~isnan(y) /\ Val(x) < Val(y)
NativeGreater(x, y) == ~isnan(x) /\ ~isnan(y) /\ Val(x) > Val(y)
NativeEq(x, y) == ~isnan(x) /\ ~isnan(y) /\ Val(x) = Val(y)

\* a <=> b, a std::partial_ordering
ThreeWay(x, y) ==
    IF isnan(x) \/ isnan(y) THEN "unordered"
    ELSE IF Val(x) < Val(y) THEN "less"
    ELSE IF Val(x) > Val(y) THEN "greater"
    ELSE "equivalent"

PosZero == MkFloat(FALSE, 0)
NegZero == MkFloat(TRUE, 0)
One == MkFloat(FALSE, 1)
NegOne == MkFloat(TRUE, 1)
Three == MkFloat(FALSE, MaxMag)
PosInf == MkFloat(FALSE, InfBits)
NegInf == MkFloat(TRUE, InfBits)
NaN1 == MkFloat(FALSE, InfBits + 1)
NaN2 == MkFloat(TRUE, InfBits + MaxPayload)

----------------------------------------------------------------------------
(* less_than_f *)

less_than_f_cmp_bothnan(After_, x, y) ==
    LET cmp == ThreeWay(x, y) IN
    IF cmp = "less" THEN TRUE
    ELSE IF cmp = "greater" \/ cmp = "equivalent" THEN FALSE
    ELSE LET a_nan == isnan(x)
             b_nan == isnan(y)
         IN  IF ~a_nan /\ b_nan THEN After_
             ELSE IF a_nan /\ ~b_nan THEN ~After_
             ELSE After_

less_than_f_cmp_swapped(After_, x, y) ==
    LET cmp == ThreeWay(x, y) IN
    IF cmp = "less" THEN TRUE
    ELSE IF cmp = "greater" \/ cmp = "equivalent" THEN FALSE
    ELSE LET a_nan == isnan(x)
             b_nan == isnan(y)
         IN  IF ~a_nan /\ b_nan THEN ~After_
             ELSE IF a_nan /\ ~b_nan THEN After_
             ELSE FALSE

\* the three-way-comparison branch
less_than_f_cmp(After_, x, y) ==
    LET cmp == ThreeWay(x, y) IN
    IF cmp = "less" THEN TRUE
    ELSE IF cmp = "greater" \/ cmp = "equivalent" THEN FALSE
    ELSE LET a_nan == isnan(x)
             b_nan == isnan(y)
         IN  IF ~a_nan /\ b_nan THEN After_
             ELSE IF a_nan /\ ~b_nan THEN ~After_
             ELSE FALSE

less_than_f_pre_native(After_, x, y) == NativeLess(x, y)

less_than_f_pre_lesseq(After_, x, y) ==
    IF ~isnan(x)
    THEN IF ~isnan(y) THEN ~NativeGreater(x, y) ELSE After_
    ELSE IF ~isnan(y) THEN ~After_ ELSE FALSE

\* the pre-C++20 branch
less_than_f_pre(After_, x, y) ==
    IF ~isnan(x)
    THEN IF ~isnan(y) THEN NativeLess(x, y) ELSE After_
    ELSE IF ~isnan(y) THEN ~After_ ELSE FALSE

less_than_f(After_, x, y) ==
    IF cpp20 THEN less_than_f_cmp(After_, x, y) ELSE less_than_f_pre(After_, x, y)

----------------------------------------------------------------------------
(* greater_than_f *)

greater_than_f_cmp_negated(After_, x, y) ==
    LET cmp == ThreeWay(x, y) IN
    IF cmp = "greater" THEN TRUE
    ELSE IF cmp = "less" \/ cmp = "equivalent" THEN FALSE
    ELSE LET a_nan == isnan(x)
             b_nan == isnan(y)
         IN  IF ~a_nan /\ b_nan THEN After_
             ELSE IF a_nan /\ ~b_nan THEN ~After_
             ELSE FALSE

\* the three-way-comparison branch
greater_than_f_cmp(After_, x, y) ==
    LET cmp == ThreeWay(x, y) IN
    IF cmp = "greater" THEN TRUE
    ELSE IF cmp = "less" \/ cmp = "equivalent" THEN FALSE
    ELSE LET a_nan == isnan(x)
             b_nan == isnan(y)
         IN  IF ~a_nan /\ b_nan THEN ~After_
             ELSE IF a_nan /\ ~b_nan THEN After_
             ELSE FALSE

greater_than_f_pre_negated(After_, x, y) ==
    IF ~isnan(x)
    THEN IF ~isnan(y) THEN NativeGreater(x, y) ELSE After_
    ELSE IF ~isnan(y) THEN ~After_ ELSE FALSE

\* the pre-C++20 branch
greater_than_f_pre(After_, x, y) ==
    IF ~isnan(x)
    THEN IF ~isnan(y) THEN NativeGreater(x, y) ELSE ~After_
    ELSE IF ~isnan(y) THEN After_ ELSE FALSE

greater_than_f(After_, x, y) ==
    IF cpp20 THEN greater_than_f_cmp(After_, x, y) ELSE greater_than_f_pre(After_, x, y)

----------------------------------------------------------------------------
(* equal_to_f *)

equal_to_f_cmp_anynan(x, y) ==
    LET cmp == ThreeWay(x, y) IN
    IF cmp = "equivalent" THEN TRUE
    ELSE IF cmp # "unordered" THEN FALSE
    ELSE isnan(x) \/ isnan(y)

\* the three-way-comparison branch
equal_to_f_cmp(x, y) ==
    LET cmp == ThreeWay(x, y) IN
    IF cmp = "equivalent" THEN TRUE
    ELSE IF cmp # "unordered" THEN FALSE
    ELSE isnan(x) /\ isnan(y)

equal_to_f_pre_native(x, y) == NativeEq(x, y)

\* the pre-C++20 branch
equal_to_f_pre(x, y) ==
    IF ~isnan(x) /\ ~isnan(y) THEN NativeEq(x, y)
    ELSE isnan(x) /\ isnan(y)

equal_to_f(x, y) ==
    IF cpp20 THEN equal_to_f_cmp(x, y) ELSE equal_to_f_pre(x, y)

----------------------------------------------------------------------------
(* equal_to_vf *)

RECURSIVE StdEqual(_, _, _)
\* std::equal(lhs.begin(), lhs.end(), rhs.begin(), equal_to_f<T>), from index k on
StdEqual(lhs, rhs, k) ==
    IF k > Len(lhs) THEN TRUE
    ELSE IF ~equal_to_f(lhs[k], rhs[k]) THEN FALSE
    ELSE StdEqual(lhs, rhs, k + 1)

equal_to_vf_prefix(lhs, rhs) ==
    IF Len(lhs) > Len(rhs) THEN FALSE ELSE StdEqual(lhs, rhs, 1)

equal_to_vf(lhs, rhs) ==
    IF Len(lhs) # Len(rhs) THEN FALSE ELSE StdEqual(lhs, rhs, 1)

----------------------------------------------------------------------------
(* hash_vf *)

\* std::size_t, at a width the arithmetic below stays exact in
SizeMod == 65536

RECURSIVE BitXor(_, _)
BitXor(x, y) ==
    IF x = 0 THEN y
    ELSE IF y = 0 THEN x
    ELSE (((x % 2) + (y % 2)) % 2) + 2 * BitXor(x \div 2, y \div 2)

HashImpls == {"fpclassify", "bits"}

\* The hash of one floating-point value that boost::hash_combine applies to el.
\* Boost before 1.81 classifies the value first (every zero hashes to 0, every
\* NaN to one value); Boost 1.81 and later hashes the bit pattern of el + 0,
\* which turns -0.0 into +0.0 and keeps the bits of a NaN.
hash_value(impl, x) ==
    IF impl = "fpclassify"
    THEN IF iszero(x) THEN 0
         ELSE IF isinf(x) THEN (IF ~Neg(x) THEN SizeMod - 1 ELSE SizeMod - 2)
         ELSE IF isnan(x) THEN SizeMod - 3
         ELSE x
    ELSE IF iszero(x) THEN PosZero ELSE x

\* boost::hash_combine(seed, el)
hash_combine(impl, seed, x) ==
    BitXor(seed, (hash_value(impl, x) + 31161 + ((seed * 64) % SizeMod) + (seed \div 4)) % SizeMod)

RECURSIVE hash_loop(_, _, _, _)
\* for (T el : in) boost::hash_combine(retval, el), from index k on
hash_loop(impl, in, k, retval) ==
    IF k > Len(in) THEN retval
    ELSE hash_loop(impl, in, k + 1, hash_combine(impl, retval, in[k]))

hash_vf(impl, in) == hash_loop(impl, in, 1, 0)

----------------------------------------------------------------------------
(* Bounds and input domains *)

\* longest vector handed to equal_to_vf and hash_vf
MaxLen == 2
\* longest sequence handed to the sort
MaxSortLen == 3

RECURSIVE SeqsUpTo(_, _)
SeqsUpTo(S, n) ==
    IF n = 0 THEN {<<>>}
    ELSE LET shorter == SeqsUpTo(S, n - 1)
         IN  shorter \cup {Append(s, x) : s \in {t \in shorter : Len(t) = n - 1}, x \in S}

VecVals == {PosZero, NegZero, One, NaN1, NaN2}
Vectors == SeqsUpTo(VecVals, MaxLen)

SortVals == {NegInf, NegZero, PosZero, One, PosInf, NaN1, NaN2}
\* [3.0, NaN, 1.0, NaN, -1.0]
Scenario == <<Three, NaN1, One, NaN2, NegOne>>
SortInputs == SeqsUpTo(SortVals, MaxSortLen) \cup {Scenario}

Operand == <<a, b, c>>
Pairs == (1 .. 3) \X (1 .. 3)
NoTable == [p \in Pairs |-> FALSE]
Primitives == {"less_than_f", "greater_than_f", "equal_to_f"}

----------------------------------------------------------------------------
(* States in which a part of the library is not in use *)

ScalarIdle ==
    /\ a = 0 /\ b = 0 /\ c = 0
    /\ called = {}
    /\ lt = NoTable /\ gt = NoTable /\ eq = NoTable

VecIdle ==
    /\ hashImpl = "bits"
    /\ v1 = <<>> /\ v2 = <<>>
    /\ vcalled = {}
    /\ eqv = FALSE /\ h1 = 0 /\ h2 = 0

SortIdle ==
    /\ input = <<>> /\ arr = <<>>
    /\ phase = "done" /\ pc = "outer"
    /\ i = 0 /\ j = 0 /\ key = 0
    /\ outLess = <<>> /\ outGreater = <<>>

----------------------------------------------------------------------------
(* The scalar primitives, called on every ordered pair of three operands *)

ScalarInit ==
    /\ cpp20 \in BOOLEAN
    /\ After \in BOOLEAN
    /\ a \in Floats /\ b \in Floats /\ c \in Floats
    /\ called = {}
    /\ lt = NoTable /\ gt = NoTable /\ eq = NoTable
    /\ VecIdle
    /\ SortIdle

Call_less_than_f ==
    /\ "less_than_f" \notin called
    /\ lt' = [p \in Pairs |-> less_than_f(After, Operand[p[1]], Operand[p[2]])]
    /\ called' = called \cup {"less_than_f"}
    /\ UNCHANGED <<cpp20, After, a, b, c, gt, eq, vecVars, sortVars>>

Call_greater_than_f ==
    /\ "greater_than_f" \notin called
    /\ gt' = [p \in Pairs |-> greater_than_f(After, Operand[p[1]], Operand[p[2]])]
    /\ called' = called \cup {"greater_than_f"}
    /\ UNCHANGED <<cpp20, After, a, b, c, lt, eq, vecVars, sortVars>>

Call_equal_to_f ==
    /\ "equal_to_f" \notin called
    /\ eq' = [p \in Pairs |-> equal_to_f(Operand[p[1]], Operand[p[2]])]
    /\ called' = called \cup {"equal_to_f"}
    /\ UNCHANGED <<cpp20, After, a, b, c, lt, gt, vecVars, sortVars>>

ScalarNext == Call_less_than_f \/ Call_greater_than_f \/ Call_equal_to_f

Spec == ScalarInit /\ [][ScalarNext]_vars

----------------------------------------------------------------------------
(* The vector functors, called on two vectors *)

VecInit ==
    /\ cpp20 \in BOOLEAN
    /\ After = TRUE
    /\ ScalarIdle
    /\ hashImpl \in HashImpls
    /\ v1 \in Vectors /\ v2 \in Vectors
    /\ vcalled = {}
    /\ eqv = FALSE /\ h1 = 0 /\ h2 = 0
    /\ SortIdle

Call_equal_to_vf ==
    /\ "equal_to_vf" \notin vcalled
    /\ eqv' = equal_to_vf(v1, v2)
    /\ vcalled' = vcalled \cup {"equal_to_vf"}
    /\ UNCHANGED <<cpp20, After, scalarVars, hashImpl, v1, v2, h1, h2, sortVars>>

Call_hash_vf ==
    /\ "hash_vf" \notin vcalled
    /\ h1' = hash_vf(hashImpl, v1)
    /\ h2' = hash_vf(hashImpl, v2)
    /\ vcalled' = vcalled \cup {"hash_vf"}
    /\ UNCHANGED <<cpp20, After, scalarVars, hashImpl, v1, v2, eqv, sortVars>>

VecNext == Call_equal_to_vf \/ Call_hash_vf

VecSpec == VecInit /\ [][VecNext]_vars

----------------------------------------------------------------------------
(* A comparison sort driven by the ordering functions: the input is sorted  *)
(* with less_than_f<After>, then with greater_than_f<After>, and the first  *)
(* result is sorted with less_than_f<After> once more.                      *)

\* the comparator handed to the sort in the running phase
comp(x, y) ==
    IF phase = "greater" THEN greater_than_f(After, x, y) ELSE less_than_f(After, x, y)

SortInit ==
    /\ cpp20 \in BOOLEAN
    /\ After \in BOOLEAN
    /\ ScalarIdle
    /\ VecIdle
    /\ input \in SortInputs
    /\ arr = input
    /\ phase = "less" /\ pc = "outer"
    /\ i = 2 /\ j = 0 /\ key = 0
    /\ outLess = <<>> /\ outGreater = <<>>

\* take the next element out of the unsorted part
Outer ==
    /\ phase # "done" /\ pc = "outer"
    /\ i <= Len(arr)
    /\ key' = arr[i]
    /\ j' = i - 1
    /\ pc' = "inner"
    /\ UNCHANGED <<cpp20, After, scalarVars, vecVars, input, arr, phase, i, outLess, outGreater>>

\* the element before the gap orders after key: move it up
Shift ==
    /\ phase # "done" /\ pc = "inner"
    /\ j >= 1 /\ comp(key, arr[j])
    /\ arr' = [arr EXCEPT ![j + 1] = arr[j]]
    /\ j' = j - 1
    /\ UNCHANGED <<cpp20, After, scalarVars, vecVars, input, phase, pc, i, key, outLess, outGreater>>

\* key does not order before the element before the gap: put it into the gap
Place ==
    /\ phase # "done" /\ pc = "inner"
    /\ ~(j >= 1 /\ comp(key, arr[j]))
    /\ arr' = [arr EXCEPT ![j + 1] = key]
    /\ i' = i + 1
    /\ pc' = "outer"
    /\ UNCHANGED <<cpp20, After, scalarVars, vecVars, input, phase, j, key, outLess, outGreater>>

FinishLess ==
    /\ phase = "less" /\ pc = "outer"
    /\ i > Len(arr)
    /\ outLess' = arr
    /\ phase' = "greater"
    /\ arr' = input
    /\ i' = 2
    /\ UNCHANGED <<cpp20, After, scalarVars, vecVars, input, pc, j, key, outGreater>>

FinishGreater ==
    /\ phase = "greater" /\ pc = "outer"
    /\ i > Len(arr)
    /\ outGreater' = arr
    /\ phase' = "resort"
    /\ arr' = outLess
    /\ i' = 2
    /\ UNCHANGED <<cpp20, After, scalarVars, vecVars, input, pc, j, key, outLess>>

FinishResort ==
    /\ phase = "resort" /\ pc = "outer"
    /\ i > Len(arr)
    /\ phase' = "done"
    /\ UNCHANGED <<cpp20, After, scalarVars, vecVars, input, arr, pc, i, j, key, outLess, outGreater>>

SortNext == Outer \/ Shift \/ Place \/ FinishLess \/ FinishGreater \/ FinishResort

\* a call of the sort runs to its end: every enabled step is eventually taken
SortSpec == SortInit /\ [][SortNext]_vars /\ WF_vars(SortNext)

----------------------------------------------------------------------------
(* Helpers of the properties *)

\* R, a table over the ordered pairs of the operands, is a strict weak ordering
StrictWeakOrdering(R) ==
    /\ \A p \in 1 .. 3 : ~R[p, p]
    /\ \A p, q \in 1 .. 3 : R[p, q] => ~R[q, p]
    /\ \A p, q, r \in 1 .. 3 : (R[p, q] /\ R[q, r]) => R[p, r]
    /\ \A p, q, r \in 1 .. 3 :
          (~R[p, q] /\ ~R[q, p] /\ ~R[q, r] /\ ~R[r, q]) => (~R[p, r] /\ ~R[r, p])

\* the truth table of less_than_f<After_>
LessTable(After_, x, y) ==
    CASE ~isnan(x) /\ ~isnan(y) -> Val(x) < Val(y)
      [] ~isnan(x) /\ isnan(y) -> After_
      [] isnan(x) /\ ~isnan(y) -> ~After_
      [] isnan(x) /\ isnan(y) -> FALSE

\* equal under native equality, or both NaN
SameValue(x, y) == (isnan(x) /\ isnan(y)) \/ (~isnan(x) /\ ~isnan(y) /\ Val(x) = Val(y))

SameValues(s, t) ==
    /\ Len(s) = Len(t)
    /\ \A k \in 1 .. Len(s) : SameValue(s[k], t[k])

Reverse(s) == [k \in 1 .. Len(s) |-> s[Len(s) + 1 - k]]
IsNotNaN(x) == ~isnan(x)
NonNaN(s) == SelectSeq(s, IsNotNaN)
HasNaN(s) == \E k \in 1 .. Len(s) : isnan(s[k])
HasNonNaN(s) == \E k \in 1 .. Len(s) : ~isnan(s[k])

NaNsAtEnd(s) == \A k \in 1 .. Len(s) - 1 : isnan(s[k]) => isnan(s[k + 1])
NaNsAtStart(s) == \A k \in 1 .. Len(s) - 1 : isnan(s[k + 1]) => isnan(s[k])
Ascending(s) ==
    \A k, l \in 1 .. Len(s) : (k < l /\ ~isnan(s[k]) /\ ~isnan(s[l])) => Val(s[k]) <= Val(s[l])
IsPermutation(s, t) ==
    /\ Len(s) = Len(t)
    /\ \A x \in Floats :
          Cardinality({k \in 1 .. Len(s) : s[k] = x}) = Cardinality({k \in 1 .. Len(t) : t[k] = x})

----------------------------------------------------------------------------
(* Properties *)

\* C1: for either After, less_than_f<After> and greater_than_f<After> are strict
\* weak orderings over all values, NaN of any payload included: irreflexive,
\* asymmetric, transitive, with a transitive incomparability.
C1_StrictWeakOrdering ==
    /\ "less_than_f" \in called => StrictWeakOrdering(lt)
    /\ "greater_than_f" \in called => StrictWeakOrdering(gt)

C1_Witness ==
    /\ {"less_than_f", "greater_than_f"} \subseteq called
    /\ After
    /\ isnan(a) /\ isnan(b) /\ a # b /\ c = PosInf
    /\ lt[3, 1] /\ ~lt[1, 2] /\ ~lt[2, 1] /\ gt[2, 3]

\* C2: less_than_f<After>(a, b) is the native a < b when neither operand is NaN,
\* After when only b is NaN, !After when only a is NaN and false when both are.
C2_TruthTable ==
    "less_than_f" \in called =>
        \A p, q \in 1 .. 3 : lt[p, q] = LessTable(After, Operand[p], Operand[q])

C2_Witness ==
    /\ "less_than_f" \in called
    /\ After
    /\ a = PosInf /\ isnan(b) /\ c = NegZero
    /\ lt[1, 2] /\ ~lt[2, 1] /\ ~lt[2, 2] /\ lt[3, 1]

\* C3: greater_than_f<After> is the mirror of less_than_f<After> on all operands,
\* NaN included: less_than_f(a, b) = greater_than_f(b, a).
C3_Mirror ==
    {"less_than_f", "greater_than_f"} \subseteq called =>
        \A p, q \in 1 .. 3 : lt[p, q] = gt[q, p]

C3_Witness ==
    /\ {"less_than_f", "greater_than_f"} \subseteq called
    /\ ~After
    /\ isnan(a) /\ b = NegInf
    /\ lt[1, 2] /\ gt[2, 1] /\ ~lt[2, 1] /\ ~gt[1, 2]

\* C6: equal_to_f(a, b) is true exactly when a and b are natively equal or both
\* NaN (of any bit patterns); it is reflexive, symmetric and transitive.
C6_Equality ==
    "equal_to_f" \in called =>
        /\ \A p, q \in 1 .. 3 :
              eq[p, q] = (NativeEq(Operand[p], Operand[q])
                          \/ (isnan(Operand[p]) /\ isnan(Operand[q])))
        /\ \A p \in 1 .. 3 : eq[p, p]
        /\ \A p, q \in 1 .. 3 : eq[p, q] => eq[q, p]
        /\ \A p, q, r \in 1 .. 3 : (eq[p, q] /\ eq[q, r]) => eq[p, r]

C6_Witness ==
    /\ "equal_to_f" \in called
    /\ isnan(a) /\ isnan(b) /\ a # b /\ c = One
    /\ eq[1, 2] /\ eq[1, 1] /\ ~eq[1, 3] /\ ~eq[3, 2]

\* C9: for either After and every a, b exactly one of less_than_f(a, b),
\* equal_to_f(a, b), greater_than_f(a, b) is true, and equal_to_f(a, b) is the
\* incomparability of the ordering.
C9_Trichotomy ==
    called = Primitives =>
        \A p, q \in 1 .. 3 :
            /\ Cardinality({r \in {"lt", "eq", "gt"} :
                              \/ r = "lt" /\ lt[p, q]
                              \/ r = "eq" /\ eq[p, q]
                              \/ r = "gt" /\ gt[p, q]}) = 1
            /\ eq[p, q] = (~lt[p, q] /\ ~lt[q, p])

C9_Witness ==
    /\ called = Primitives
    /\ isnan(a) /\ isnan(b) /\ a # b /\ c = NegInf
    /\ eq[1, 2] /\ ~lt[1, 2] /\ ~gt[1, 2]
    /\ (lt[1, 3] \/ gt[1, 3]) /\ ~eq[1, 3]

\* C10: whichever branch the build compiles, each scalar primitive returns what
\* the three-way-comparison branch returns and what the isnan branch returns.
C10_BranchesAgree ==
    /\ "less_than_f" \in called =>
          \A p, q \in 1 .. 3 :
              /\ lt[p, q] = less_than_f_cmp(After, Operand[p], Operand[q])
              /\ lt[p, q] = less_than_f_pre(After, Operand[p], Operand[q])
    /\ "greater_than_f" \in called =>
          \A p, q \in 1 .. 3 :
              /\ gt[p, q] = greater_than_f_cmp(After, Operand[p], Operand[q])
              /\ gt[p, q] = greater_than_f_pre(After, Operand[p], Operand[q])
    /\ "equal_to_f" \in called =>
          \A p, q \in 1 .. 3 :
              /\ eq[p, q] = equal_to_f_cmp(Operand[p], Operand[q])
              /\ eq[p, q] = equal_to_f_pre(Operand[p], Operand[q])

C10_Witness ==
    /\ called = Primitives
    /\ ~cpp20
    /\ isnan(a) /\ b = NegZero /\ c = PosZero
    /\ eq[2, 3] /\ ~lt[2, 3] /\ ~gt[3, 2]
    /\ lt[1, 2] = ~After

\* C7: equal_to_vf()(lhs, rhs) is false when the lengths differ and otherwise
\* true exactly when equal_to_f holds at every index.
C7_VectorEquality ==
    "equal_to_vf" \in vcalled =>
        /\ Len(v1) # Len(v2) => ~eqv
        /\ Len(v1) = Len(v2) =>
              eqv = (\A k \in 1 .. Len(v1) : SameValue(v1[k], v2[k]))

C7_Witness ==
    /\ "equal_to_vf" \in vcalled
    /\ Len(v1) = MaxLen /\ Len(v2) = MaxLen
    /\ v1[1] = NaN1 /\ v2[1] = NaN2
    /\ v1[2] = PosZero /\ v2[2] = NegZero
    /\ eqv

\* C5: vectors that are equal under equal_to_vf have equal hashes under hash_vf.
C5_HashConsistent ==
    ({"equal_to_vf", "hash_vf"} \subseteq vcalled /\ eqv) => h1 = h2

\* C8: the sort driven by less_than_f<After> terminates; its result holds the
\* elements of the input, the non-NaN ones ascending and the NaNs together at
\* the end (After) or at the start (!After); sorting the result again does not
\* change it; [3, NaN, 1, NaN, -1] becomes [-1, 1, 3, NaN, NaN].
C8_SortWithNaN ==
    /\ <>(phase = "done")
    /\ [](phase # "less" =>
            /\ IsPermutation(outLess, input)
            /\ Ascending(outLess)
            /\ IF After THEN NaNsAtEnd(outLess) ELSE NaNsAtStart(outLess)
            /\ (input = Scenario /\ After) =>
                  SameValues(outLess, <<NegOne, One, Three, NaN1, NaN1>>))
    /\ [](phase = "done" => SameValues(arr, outLess))

C8_Witness ==
    /\ phase = "done"
    /\ After
    /\ input = Scenario
    /\ outLess = <<NegOne, One, Three, NaN1, NaN2>>
    /\ arr = outLess

\* C4 as stated: with After = true the two sorts give reversed orders of the
\* non-NaN values and both leave the NaNs at the end.
C4_SameEnd ==
    (phase \in {"resort", "done"} /\ After /\ HasNaN(input) /\ HasNonNaN(input)) =>
        /\ SameValues(NonNaN(outGreater), Reverse(NonNaN(outLess)))
        /\ NaNsAtEnd(outLess)
        /\ NaNsAtEnd(outGreater)

\* C4 amended: with After = true the two sorts give reversed orders of the
\* non-NaN values; the NaNs are at the end of the less_than_f result and at the
\* start of the greater_than_f result, which is the first result reversed.
C4_OppositeEnds ==
    (phase \in {"resort", "done"} /\ After /\ HasNaN(input) /\ HasNonNaN(input)) =>
        /\ SameValues(NonNaN(outGreater), Reverse(NonNaN(outLess)))
        /\ NaNsAtEnd(outLess)
        /\ NaNsAtStart(outGreater)
        /\ SameValues(outGreater, Reverse(outLess))

C4_Witness ==
    /\ phase = "done"
    /\ After
    /\ input = Scenario
    /\ outLess = <<NegOne, One, Three, NaN1, NaN2>>
    /\ outGreater = <<NaN1, NaN2, Three, One, NegOne>>

====
